---- MODULE Spec2Model ----
(***************************************************************************)
(* The forecasting service of backend_ml/app.py and of its variant         *)
(* backend_ml/app_enhanced.py: module start-up (historical table and the   *)
(* five artifacts), the 24-step autoregressive rollout of                  *)
(* get_hourly_forecast and the alert endpoint check_alerts.                *)
(*                                                                         *)
(* Timestamps are whole hours counted from 2021-01-01T00:00 (the data set  *)
(* covers 1 Apr 2021 - 31 Dec 2021); 2021 and 2022 have 365 days.          *)
(* A number that may be undefined (NaN) is a sequence: << >> is NaN and    *)
(* <<num, den>> is the value num/den.                                      *)
(***************************************************************************)
EXTENDS Integers, Sequences, FiniteSets, TLC

\* ------------------------------------------------------------ configuration
TARGET_COLUMN == "Phase3_power"
N_LOOKBACK == 72
TAIL_ROWS == 96
HORIZON == 24
MAX_LAG == 24
CRITICAL_LOAD_THRESHOLD == 500
FEATURES_LSTM ==
    <<"Phase2_current", "Phase2_voltage", "Phase3_frequency",
      "Phase3_pf", "Phase3_power", "Phase3_voltage">>
Columns == {FEATURES_LSTM[i] : i \in 1..Len(FEATURES_LSTM)}
NonTarget == Columns \ {TARGET_COLUMN}
FEATURES_XGB ==
    <<"Phase2_current", "Phase2_voltage", "Phase3_frequency", "Phase3_pf", "Phase3_voltage",
      "hour", "dayofweek", "month", "quarter", "year", "dayofyear",
      "Phase3_power_lag_1h", "Phase3_power_lag_3h", "Phase3_power_lag_24h",
      "Phase3_power_roll_avg_3h", "Phase3_power_roll_avg_6h", "Phase3_power_roll_avg_24h">>
Artifacts == <<"model_xgb", "model_lstm", "model_fusion", "scaler_x", "scaler_y">>
ArtifactNames == {Artifacts[i] : i \in 1..Len(Artifacts)}

\* ------------------------------------------------------------------ bounds
\* Two handlers run at a time (the development server is threaded); the
\* historical table extends ExtraRows rows beyond the 96 a request copies.
Requests == {1, 2}
ExtraRows == 1
MaxFeatureRows == 27

NaN == << >>
Val(n) == <<n, 1>>

\* ---------------------------------------------------------------- calendar
HoursPerYear == 365 * 24
CumDays == <<0, 31, 59, 90, 120, 151, 181, 212, 243, 273, 304, 334, 365>>
DayIndex(t) == t \div 24
hour(t) == t % 24
dayofweek(t) == (DayIndex(t) + 4) % 7
year(t) == 2021 + (t \div HoursPerYear)
dayofyear(t) == (DayIndex(t) % 365) + 1
month(t) == CHOOSE m \in 1..12 : CumDays[m] < dayofyear(t) /\ dayofyear(t) <= CumDays[m + 1]
quarter(t) == ((month(t) - 1) \div 3) + 1
day(t) == dayofyear(t) - CumDays[month(t)]
Timedelta(hours) == hours

\* Timestamp.isoformat(): the calendar fields of the timestamp, in order.
isoformat(t) == <<year(t), month(t), day(t), hour(t)>>
\* The instant an ISO string denotes (what a client parses back).
FromIso(s) == (s[1] - 2021) * HoursPerYear + (CumDays[s[2]] + s[3] - 1) * 24 + s[4]

\* ------------------------------------------------------------ feature deriver
RECURSIVE SumRows(_, _, _, _)
SumRows(df, c, lo, hi) == IF lo > hi THEN 0 ELSE df[hi][c] + SumRows(df, c, lo, hi - 1)
\* df[c].shift(k) at row i: the value k rows earlier, NaN for the first k rows.
shift(df, c, k, i) == IF i - k >= 1 THEN Val(df[i - k][c]) ELSE NaN
\* df[c].rolling(window=w).mean() at row i: the mean of the w rows ending at
\* row i, NaN while fewer than w rows exist.
rolling_mean(df, c, w, i) ==
    IF i - w + 1 >= 1 THEN <<SumRows(df, c, i - w + 1, i), w>> ELSE NaN
\* Variant: the rolling mean is not shifted, so it takes in row i itself.
rolling_mean_unshifted(df, c, w, i) == rolling_mean(df, c, w, i)
\* df[c].rolling(window=w).mean().shift(1) at row i.
rolling_mean_shift1(df, c, w, i) == IF i - 1 >= 1 THEN rolling_mean(df, c, w, i - 1) ELSE NaN

\* Row i of create_features_xgb(df, target_col).
FeatureRow(df, target_col, i) ==
    [c \in Columns |-> df[i][c]] @@
    [time      |-> df[i].time,
     hour      |-> hour(df[i].time),
     dayofweek |-> dayofweek(df[i].time),
     month     |-> month(df[i].time),
     quarter   |-> quarter(df[i].time),
     year      |-> year(df[i].time),
     dayofyear |-> dayofyear(df[i].time),
     Phase3_power_lag_1h       |-> shift(df, target_col, 1, i),
     Phase3_power_lag_3h       |-> shift(df, target_col, 3, i),
     Phase3_power_lag_24h      |-> shift(df, target_col, 24, i),
     Phase3_power_roll_avg_3h  |-> rolling_mean_shift1(df, target_col, 3, i),
     Phase3_power_roll_avg_6h  |-> rolling_mean_shift1(df, target_col, 6, i),
     Phase3_power_roll_avg_24h |-> rolling_mean_shift1(df, target_col, 24, i)]

create_features_xgb(df, target_col) ==
    [i \in 1..Len(df) |-> FeatureRow(df, target_col, i)]

\* DataFrame[columns]: the named columns of every row (the index stays).
Indexed(columns) == {columns[j] : j \in 1..Len(columns)} \cup {"time"}
LstmColumns == Indexed(FEATURES_LSTM)
XgbColumns == Indexed(FEATURES_XGB)
Select(df, cols) ==
    IF Len(df) > 0 /\ DOMAIN df[1] = cols THEN df
    ELSE [i \in 1..Len(df) |-> [c \in cols |-> df[i][c]]]

\* DataFrame.iloc[-k:]
iloc_tail(df, k) == IF Len(df) <= k THEN df ELSE SubSeq(df, Len(df) - k + 1, Len(df))

\* ------------------------------------------------- the artifacts (opaque)
\* What the five artifact files and the CSV hold is not part of the source.
\* A scenario fixes their contents: "const" is a flat target history with
\* regressors that all answer 400; "mix" is a varying history with a tree
\* regressor reading lag_1h and hour, a sequence regressor reading the last
\* row of its window, and a fusion regressor that is neither of its inputs.
Scenarios == {"const", "mix"}
Variants == {"app", "enhanced"}

XScale(c) == 2
XMin(c) == IF c = TARGET_COLUMN THEN 0 - 600 ELSE 0 - 10
YScale == 2
YMin == 0 - 600

\* scaler_x.transform: the per-channel affine map, row by row.
scaler_x_transform(window) ==
    [i \in 1..Len(window) |-> [c \in Columns |-> window[i][c] * XScale(c) + XMin(c)]]
\* scaler_y.inverse_transform(...)[0][0]
scaler_y_inverse_transform(y) == (y - YMin) \div YScale

model_xgb_predict(scn, X) ==
    IF scn = "const" THEN 400
    ELSE IF X.Phase3_power_lag_1h = NaN THEN 350 ELSE X.Phase3_power_lag_1h[1] + X.hour

model_lstm_predict(scn, seq) ==
    IF scn = "const" THEN 400 * YScale + YMin
    ELSE seq[Len(seq)][TARGET_COLUMN] + 4

model_fusion_predict(scn, xgb_pred, lstm_pred) ==
    IF scn = "const" THEN 400
    ELSE ((xgb_pred + lstm_pred) \div 2) + 5

\* ------------------------------------------------- the historical table
\* data/cleaned_bangalore_data.csv: n hourly rows, the last at EndTime.
EndTime(scn) == IF scn = "const" THEN 181 * 24 - 3 ELSE 365 * 24 - 1
PowerAt(scn, i) == IF scn = "const" THEN 400 ELSE 470 + 5 * (i % 6)
ChannelAt(c, i) ==
    (CHOOSE j \in 1..Len(FEATURES_LSTM) : FEATURES_LSTM[j] = c) * 10 + 200 + (i % 4)
Csv(scn, n) ==
    [i \in 1..n |->
        [c \in NonTarget |-> ChannelAt(c, i)] @@
        [time |-> EndTime(scn) - (n - i), Phase3_power |-> PowerAt(scn, i)]]
HistLens == {0, MAX_LAG, N_LOOKBACK - 1, N_LOOKBACK, TAIL_ROWS + ExtraRows}

\* full_data is None, or the table read_csv returned.
None == [is_none |-> TRUE, rows |-> << >>]
Frame(rows) == [is_none |-> FALSE, rows |-> rows]


\* ------------------------------------------------------------------- state
VARIABLES
    variant,           \* which of the two server modules runs
    scenario,          \* contents of the CSV and of the artifact files
    full_data,         \* module global: None or the historical table
    artifacts,         \* module globals: "loaded", "None" or "unbound"
    pc,                \* per request: "idle" or "loop"
    base_data,         \* per request: the rolling table
    forecast_results,  \* per request: the list being accumulated
    resp,              \* per request: the HTTP response last sent
    discarded,         \* per request: that response dropped accumulated entries
    tree_input,        \* per request: rows last handed to model_xgb.predict
    window_rows,       \* per request: rows last handed to scaler_x.transform
    n_calls,           \* per request: derivation, scaler and regressor calls made
    preds,             \* per request: what the three regressors last returned
    alerts_resp,       \* the last response of check_alerts
    df,                \* create_features_xgb called on its own: its argument
    df_copy            \* create_features_xgb called on its own: what it returned

vars == <<variant, scenario, full_data, artifacts, pc, base_data,
          forecast_results, resp, discarded, tree_input, window_rows, n_calls,
          preds, alerts_resp, df, df_copy>>

NoResp == [status |-> 0, forecast |-> << >>, error |-> ""]
Ok(results) == [status |-> 200, forecast |-> results, error |-> ""]
Err(msg) == [status |-> 500, forecast |-> << >>, error |-> msg]
NotCalled == 0 - 1
NoPreds == [xgb |-> 0, lstm |-> 0, fusion |-> 0]
NoAlerts == [responded |-> FALSE, alerts |-> << >>]

\* ---------------------------------------------------------------- start-up
\* Data: read_csv succeeded, or full_data = None (both except branches).
LoadData(ok, scn, n) == IF ok THEN Frame(Csv(scn, n)) ELSE None

\* Artifacts: the five loads run in order inside one try; the first k
\* succeed.  app.py leaves the names after the failure unbound;
\* app_enhanced.py sets all five to None.
LoadArtifacts(v, k) ==
    [a \in ArtifactNames |->
        LET idx == CHOOSE i \in 1..Len(Artifacts) : Artifacts[i] = a
        IN  IF k = Len(Artifacts) THEN "loaded"
            ELSE IF v = "enhanced" THEN "None"
            ELSE IF idx <= k THEN "loaded" ELSE "unbound"]

InitServer ==
    /\ variant \in Variants
    /\ scenario \in Scenarios
    /\ \E ok \in BOOLEAN, n \in HistLens :
          /\ ~ok => n = 0
          /\ full_data = LoadData(ok, scenario, n)
    /\ \E k \in 0..Len(Artifacts) : artifacts = LoadArtifacts(variant, k)
    /\ pc = [r \in Requests |-> "idle"]
    /\ base_data = [r \in Requests |-> << >>]
    /\ forecast_results = [r \in Requests |-> << >>]
    /\ resp = [r \in Requests |-> NoResp]
    /\ discarded = [r \in Requests |-> FALSE]
    /\ tree_input = [r \in Requests |-> << >>]
    /\ window_rows = [r \in Requests |-> NotCalled]
    /\ n_calls = [r \in Requests |-> 0]
    /\ preds = [r \in Requests |-> NoPreds]
    /\ alerts_resp = NoAlerts

Init ==
    /\ InitServer
    /\ df = << >>
    /\ df_copy = None

\* --------------------------------------------------- one rollout iteration
\* The calls of one iteration that can raise, in program order.
FailPoints ==
    {"create_features_xgb", "model_xgb", "scaler_x", "model_lstm", "scaler_y", "model_fusion"}

\* Using an artifact raises when its name is unbound (NameError) or None
\* (AttributeError): only a loaded artifact can be called.
\* Variant: an artifact that did not load is used as if it had.
UsableAnyway(arts, a) == TRUE
Usable(arts, a) == arts[a] = "loaded"

\* Variant: the timestamp is not advanced.
next_timestamp_stale(base) == base[Len(base)].time
next_timestamp_of(base) == base[Len(base)].time + Timedelta(1)

\* Variant: the tree regressor's value is emitted instead of the fused one.
ForecastEntryTree(next_timestamp, pred_xgb, pred_lstm, pred_fusion) ==
    [timestamp |-> isoformat(next_timestamp), predicted_power |-> pred_xgb]

\* The forecast entry of the iteration.
ForecastEntry(next_timestamp, pred_xgb, pred_lstm, pred_fusion) ==
    [timestamp |-> isoformat(next_timestamp), predicted_power |-> pred_fusion]

\* Variant: the other columns are taken from the first row of the table.
NewRowFromFirst(base, next_timestamp, pred_fusion) ==
    [c \in NonTarget |-> base[1][c]] @@
    [time |-> next_timestamp, Phase3_power |-> pred_fusion]

\* The synthesized row: a copy of the last row, re-indexed, target replaced,
\* every other column set to the last row's value.
NewRow(base, next_timestamp, pred_fusion) ==
    [c \in NonTarget |-> base[Len(base)][c]] @@
    [time |-> next_timestamp, Phase3_power |-> pred_fusion]

\* Variant: the features are derived for the hour being predicted, on the
\* table extended by a row for next_timestamp.
NextFeatureRows(base) ==
    IF Len(base) = 0 THEN << >>
    ELSE LET ext == Append(base, [base[Len(base)] EXCEPT !.time = @ + Timedelta(1)])
         IN  <<create_features_xgb(ext, TARGET_COLUMN)[Len(ext)]>>

\* create_features_xgb(base_data, TARGET_COLUMN).iloc[-1:]
LastFeatureRows(base) ==
    IF Len(base) = 0 THEN << >>
    ELSE <<create_features_xgb(base, TARGET_COLUMN)[Len(base)]>>

\* base_data[FEATURES_LSTM].iloc[-N_LOOKBACK:]
current_data_lstm_raw(base) == iloc_tail(Select(base, LstmColumns), N_LOOKBACK)

\* The values lines 119-133 of app.py (93-103 of app_enhanced.py) compute on
\* the rolling table `base` when no call raises.  predict returns one value
\* per input row, so each prediction is a sequence of zero or one values.
Pass(base, scn) ==
    LET current_data_xgb == LastFeatureRows(base)
        window == current_data_lstm_raw(base)
        X_xgb == Select(current_data_xgb, XgbColumns)
        pred_xgb == [i \in 1..Len(X_xgb) |-> model_xgb_predict(scn, X_xgb[i])]
        X_lstm_scaled == scaler_x_transform(window)
        pred_lstm == [i \in 1..Len(pred_xgb) |->
                        scaler_y_inverse_transform(model_lstm_predict(scn, X_lstm_scaled))]
        pred_fusion == [i \in 1..Len(pred_xgb) |->
                        model_fusion_predict(scn, pred_xgb[i], pred_lstm[i])]
    IN  [X_xgb |-> X_xgb, rows |-> Len(window),
         pred_xgb |-> pred_xgb, pred_lstm |-> pred_lstm, pred_fusion |-> pred_fusion]

Raised(msg, calls, x, w, p) ==
    [raised |-> TRUE, error |-> msg, calls |-> calls, tree_in |-> x, win |-> w,
     preds |-> p, entry |-> << >>, table |-> << >>]

\* One pass of the loop body on the rolling table `base`, whose values are
\* `p`; `fail` names the call that raises in this pass, if any.  An unusable
\* artifact raises where it is first used, and predict(...)[0] of an empty
\* frame raises as well.
Iteration(p, base, arts, fail) ==
    LET p1 == [NoPreds EXCEPT !.xgb = p.pred_xgb[1]]
        p2 == [p1 EXCEPT !.lstm = p.pred_lstm[1]]
        p3 == [p2 EXCEPT !.fusion = p.pred_fusion[1]]
        next_timestamp == next_timestamp_of(base)
    IN  IF fail = "create_features_xgb"
        THEN Raised("create_features_xgb", 1, << >>, NotCalled, NoPreds)
        ELSE IF ~Usable(arts, "model_xgb")
        THEN Raised("model_xgb is not usable", 1, << >>, NotCalled, NoPreds)
        ELSE IF fail = "model_xgb" \/ Len(p.pred_xgb) = 0
        THEN Raised("model_xgb.predict", 2, p.X_xgb, NotCalled, NoPreds)
        ELSE IF ~Usable(arts, "scaler_x")
        THEN Raised("scaler_x is not usable", 2, p.X_xgb, NotCalled, p1)
        ELSE IF fail = "scaler_x"
        THEN Raised("scaler_x.transform", 3, p.X_xgb, p.rows, p1)
        ELSE IF ~Usable(arts, "model_lstm")
        THEN Raised("model_lstm is not usable", 3, p.X_xgb, p.rows, p1)
        ELSE IF fail = "model_lstm"
        THEN Raised("model_lstm.predict", 4, p.X_xgb, p.rows, p1)
        ELSE IF ~Usable(arts, "scaler_y")
        THEN Raised("scaler_y is not usable", 4, p.X_xgb, p.rows, p1)
        ELSE IF fail = "scaler_y"
        THEN Raised("scaler_y.inverse_transform", 5, p.X_xgb, p.rows, p1)
        ELSE IF ~Usable(arts, "model_fusion")
        THEN Raised("model_fusion is not usable", 5, p.X_xgb, p.rows, p2)
        ELSE IF fail = "model_fusion"
        THEN Raised("model_fusion.predict", 6, p.X_xgb, p.rows, p2)
        ELSE [raised |-> FALSE, error |-> "", calls |-> 6, tree_in |-> p.X_xgb,
              win |-> p.rows, preds |-> p3,
              entry |-> ForecastEntry(next_timestamp, p.pred_xgb[1], p.pred_lstm[1],
                                      p.pred_fusion[1]),
              table |-> Append(base, NewRow(base, next_timestamp, p.pred_fusion[1]))]

\* ------------------------------------------------------- get_hourly_forecast
\* Variant: the guard does not look at the historical table.
UnavailableModelsOnly(v, fd, arts) ==
    /\ v = "enhanced"
    /\ \/ arts["model_xgb"] = "None"
       \/ arts["model_lstm"] = "None"
       \/ arts["model_fusion"] = "None"

\* The guard at the top of the handler.
Unavailable(v, fd, arts) ==
    IF v = "app" THEN fd.is_none
    ELSE \/ fd.is_none
         \/ arts["model_xgb"] = "None"
         \/ arts["model_lstm"] = "None"
         \/ arts["model_fusion"] = "None"

GuardMessage(v) ==
    IF v = "app" THEN "Historical data not loaded on server."
    ELSE "Data or model files missing. Cannot generate forecast."

\* Variant: the except branch answers what had been accumulated.
PartialResponse(results, msg) == Ok(results)

\* The except branch: jsonify({"error": str(e)}), 500.
ErrorResponse(results, msg) == Err(msg)

\* Variant: the extended table is stored back into the module global.
full_data_extended(fd, table) == Frame(table)

\* Variant: the synthesized row is appended to the module-global table.
full_data_appended(fd, table) == Frame(Append(fd.rows, table[Len(table)]))

\* What an iteration leaves in the module-global table: the handler only
\* rebinds its local base_data.
full_data_after_iteration(fd, table) == fd

\* The request arrives: the guard, then the private copy of the last 96 rows.
Begin(r) ==
    /\ pc[r] = "idle"
    /\ discarded' = [discarded EXCEPT ![r] = FALSE]
    /\ IF Unavailable(variant, full_data, artifacts)
       THEN /\ resp' = [resp EXCEPT ![r] = Err(GuardMessage(variant))]
            /\ UNCHANGED <<pc, base_data, forecast_results>>
       ELSE /\ base_data' = [base_data EXCEPT ![r] = iloc_tail(full_data.rows, TAIL_ROWS)]
            /\ forecast_results' = [forecast_results EXCEPT ![r] = << >>]
            /\ pc' = [pc EXCEPT ![r] = "loop"]
            /\ resp' = [resp EXCEPT ![r] = NoResp]
    /\ UNCHANGED <<variant, scenario, full_data, artifacts, tree_input, window_rows,
                   n_calls, preds, alerts_resp, df, df_copy>>

\* The handler returns: its frame (the locals and the record of the calls it
\* made) is gone, the response stays with the client.
Return(r, response, dropped) ==
    /\ resp' = [resp EXCEPT ![r] = response]
    /\ discarded' = [discarded EXCEPT ![r] = dropped]
    /\ pc' = [pc EXCEPT ![r] = "idle"]
    /\ base_data' = [base_data EXCEPT ![r] = << >>]
    /\ forecast_results' = [forecast_results EXCEPT ![r] = << >>]
    /\ tree_input' = [tree_input EXCEPT ![r] = << >>]
    /\ window_rows' = [window_rows EXCEPT ![r] = NotCalled]
    /\ n_calls' = [n_calls EXCEPT ![r] = 0]
    /\ preds' = [preds EXCEPT ![r] = NoPreds]

\* One pass of the for loop; the pass that completes the horizon returns the
\* list, a pass that raises returns the error.
Iterate(r) ==
    /\ pc[r] = "loop"
    /\ Len(forecast_results[r]) < HORIZON
    /\ \E p \in {Pass(base_data[r], scenario)} :
       \E fail \in FailPoints \cup {"none"} :
         LET o == Iteration(p, base_data[r], artifacts, fail)
             results == Append(forecast_results[r], o.entry)
         IN  IF o.raised
             THEN /\ Return(r, ErrorResponse(forecast_results[r], o.error),
                            forecast_results[r] # << >>)
                  /\ UNCHANGED full_data
             ELSE /\ full_data' = full_data_after_iteration(full_data, o.table)
                  /\ IF Len(results) = HORIZON
                     THEN Return(r, Ok(results), FALSE)
                     ELSE /\ base_data' = [base_data EXCEPT ![r] = o.table]
                          /\ forecast_results' = [forecast_results EXCEPT ![r] = results]
                          /\ preds' = [preds EXCEPT ![r] = o.preds]
                          /\ n_calls' = [n_calls EXCEPT ![r] = @ + o.calls]
                          /\ tree_input' = [tree_input EXCEPT ![r] = o.tree_in]
                          /\ window_rows' = [window_rows EXCEPT ![r] = o.win]
                          /\ UNCHANGED <<resp, pc, discarded>>
    /\ UNCHANGED <<variant, scenario, artifacts, alerts_resp, df, df_copy>>

\* -------------------------------------------------------------- check_alerts
NowTimes == {EndTime("mix") + 1}
DemoAlert(now) ==
    [timestamp |-> isoformat(now + Timedelta(4)), level |-> "critical",
     message |-> <<"Demo Alert: Predicted load", <<1025, 2>>, "exceeds", CRITICAL_LOAD_THRESHOLD>>]
DataErrorAlert ==
    [timestamp |-> << >>, level |-> "error",
     message |-> <<"Cannot check alerts, data not loaded.">>]

\* app.py answers the demo alert unconditionally; app_enhanced.py answers an
\* error alert without data and otherwise, its forecast_data being the empty
\* list, the demo alert.
check_alerts(v, fd, now) ==
    IF v = "app" THEN <<DemoAlert(now)>>
    ELSE IF fd.is_none THEN <<DataErrorAlert>>
    ELSE LET forecast_data == << >>
         IN  IF forecast_data = << >> THEN <<DemoAlert(now)>> ELSE << >>

CheckAlerts ==
    /\ \E now \in NowTimes :
          alerts_resp' = [responded |-> TRUE, alerts |-> check_alerts(variant, full_data, now)]
    /\ UNCHANGED <<variant, scenario, full_data, artifacts, pc, base_data,
                   forecast_results, resp, discarded, tree_input, window_rows, n_calls,
                   preds, df, df_copy>>

Next ==
    \/ \E r \in Requests : Begin(r)
    \/ \E r \in Requests : Iterate(r)
    \/ CheckAlerts

Spec == Init /\ [][Next]_vars

\* ------------------------------------------- create_features_xgb on its own
\* The helper is a pure function of its argument.  Its arguments here are
\* hourly tables of 0..MaxFeatureRows rows in which one row (none when
\* spike = 0) carries a target value far from the others, so that a feature
\* that takes in a row it should not is told apart.
FeatureInput(n, spike) ==
    [i \in 1..n |->
        IF i = spike THEN [Csv("mix", n)[i] EXCEPT !.Phase3_power = @ + 1000]
        ELSE Csv("mix", n)[i]]

InitFeatures ==
    /\ InitServer
    /\ variant = "app" /\ scenario = "mix" /\ full_data.is_none
    /\ \A a \in ArtifactNames : artifacts[a] = "loaded"
    /\ \E n \in 0..MaxFeatureRows : \E spike \in 0..n : df = FeatureInput(n, spike)
    /\ df_copy = None

DeriveFeatures ==
    /\ df_copy.is_none
    /\ df_copy' = Frame(create_features_xgb(df, TARGET_COLUMN))
    /\ UNCHANGED <<variant, scenario, full_data, artifacts, pc, base_data,
                   forecast_results, resp, discarded, tree_input, window_rows, n_calls,
                   preds, alerts_resp, df>>

NextFeatures == DeriveFeatures

SpecFeatures == InitFeatures /\ [][NextFeatures]_vars

\* ==================================================================== claims
LastHistorical == full_data.rows[Len(full_data.rows)].time
\* Rows of the rolling table of request r that come from the historical table.
HistRows(r) == Len(base_data[r]) - Len(forecast_results[r])
Answered(r) == pc[r] = "idle" /\ resp[r] # NoResp

\* C1: every successful forecast response holds exactly 24 entries, entry i
\* stamped i hours after the last timestamp of the historical table (so the
\* stamps are strictly increasing and one hour apart).
C1_HourlyTimestamps ==
    \A r \in Requests :
        resp[r].status = 200 =>
            /\ Len(resp[r].forecast) = HORIZON
            /\ \A i \in 1..HORIZON :
                  FromIso(resp[r].forecast[i].timestamp) = LastHistorical + i
C1_Witness ==
    \E r \in Requests :
        /\ resp[r].status = 200
        /\ resp[r].forecast[1].timestamp[1] = 2022
        /\ Len(full_data.rows) = TAIL_ROWS + ExtraRows

\* C2: the rollout is all-or-nothing: a response is an error without any
\* forecast entry or a forecast of exactly 24 entries, and a pass that raises
\* after entries were accumulated answers the error and none of them.
C2_AllOrNothing ==
    \A r \in Requests :
        /\ resp[r].status \in {0, 200, 500}
        /\ resp[r].status = 200 => Len(resp[r].forecast) = HORIZON /\ resp[r].error = ""
        /\ resp[r].status # 200 => resp[r].forecast = << >>
        /\ resp[r].status = 500 => resp[r].error # ""
        /\ discarded[r] => resp[r].status = 500
C2_Witness ==
    \E r \in Requests :
        /\ discarded[r]
        /\ resp[r].status = 500
        /\ resp[r].error = "model_lstm.predict"
        /\ resp[r].forecast = << >>

\* C3: in every pass the appended row's target and the emitted
\* predicted_power are the fusion regressor's output of that pass; with the
\* flat history and regressors answering 400, all 24 emitted values are 400.
C3_LoopState ==
    \A r \in Requests :
        /\ pc[r] = "loop" /\ forecast_results[r] # << >> =>
              /\ base_data[r][Len(base_data[r])].Phase3_power = preds[r].fusion
              /\ forecast_results[r][Len(forecast_results[r])].predicted_power = preds[r].fusion
              /\ \A i \in 1..Len(forecast_results[r]) :
                    base_data[r][HistRows(r) + i].Phase3_power
                        = forecast_results[r][i].predicted_power
        /\ scenario = "const" /\ resp[r].status = 200 =>
              \A i \in 1..HORIZON : resp[r].forecast[i].predicted_power = 400
C3_FinalPass ==
    \A r \in Requests :
        pc[r] = "loop" /\ resp'[r].status = 200 =>
            /\ SubSeq(resp'[r].forecast, 1, HORIZON - 1) = forecast_results[r]
            /\ resp'[r].forecast[HORIZON].predicted_power
                   = Pass(base_data[r], scenario).pred_fusion[1]
\* C3: the fused value is the one appended and emitted, in every state of the
\* loop and in the step that answers the 24th entry.
C3_FusedValueExtendsState == [](C3_LoopState) /\ [][C3_FinalPass]_vars
C3_Witness ==
    \E r \in Requests :
        /\ pc[r] = "loop"
        /\ Len(forecast_results[r]) >= 2
        /\ preds[r].fusion # preds[r].xgb
        /\ preds[r].fusion # preds[r].lstm

\* C4: every non-target channel of every synthesized row equals that channel
\* in the row before it, hence in the last historical row.
C4_NaivePersistence ==
    \A r \in Requests :
        pc[r] = "loop" =>
            \A j \in (HistRows(r) + 1)..Len(base_data[r]) :
                \A c \in NonTarget :
                    /\ base_data[r][j][c] = base_data[r][j - 1][c]
                    /\ base_data[r][j][c] = full_data.rows[Len(full_data.rows)][c]
C4_Witness ==
    \E r \in Requests :
        /\ pc[r] = "loop"
        /\ Len(forecast_results[r]) >= 3
        /\ \E c \in NonTarget :
              base_data[r][HistRows(r)][c] # base_data[r][HistRows(r) - 1][c]

\* C5: no step changes the historical table or the artifacts, and a running
\* request's rolling table is the last 96 historical rows followed by rows
\* built from its own forecast entries only.
C5_PrivateCopy ==
    \A r \in Requests :
        pc[r] = "loop" =>
            /\ SubSeq(base_data[r], 1, HistRows(r)) = iloc_tail(full_data.rows, TAIL_ROWS)
            /\ \A i \in 1..Len(forecast_results[r]) :
                  /\ base_data[r][HistRows(r) + i].time
                         = FromIso(forecast_results[r][i].timestamp)
                  /\ base_data[r][HistRows(r) + i].Phase3_power
                         = forecast_results[r][i].predicted_power
\* C5: full_data and the artifacts never change, and the rolling tables stay
\* private copies.
C5_SharedStateUntouched ==
    [][full_data' = full_data /\ artifacts' = artifacts]_vars /\ [](C5_PrivateCopy)
C5_Witness ==
    /\ pc[1] = "loop" /\ Len(forecast_results[1]) >= 3
    /\ pc[2] = "loop" /\ Len(forecast_results[2]) = 1
    /\ Len(full_data.rows) > TAIL_ROWS

\* The alerts section 4.5 asks for: one critical alert per forecast entry
\* above the threshold, stamped and valued as that entry.
RECURSIVE ExceedingEntries(_, _)
ExceedingEntries(forecast, threshold) ==
    IF forecast = << >> THEN << >>
    ELSE LET rest == ExceedingEntries(Tail(forecast), threshold)
         IN  IF Head(forecast).predicted_power > threshold
             THEN <<Head(forecast)>> \o rest ELSE rest

\* C6: the alert check answers exactly one critical alert per forecast entry
\* above CRITICAL_LOAD_THRESHOLD, with that entry's timestamp, and no alert
\* when no entry is above it.
C6_AlertsFollowForecast ==
    \A r \in Requests :
        alerts_resp.responded /\ resp[r].status = 200 =>
            LET due == ExceedingEntries(resp[r].forecast, CRITICAL_LOAD_THRESHOLD)
            IN  /\ Len(alerts_resp.alerts) = Len(due)
                /\ \A i \in 1..Len(due) :
                      /\ alerts_resp.alerts[i].level = "critical"
                      /\ alerts_resp.alerts[i].timestamp = due[i].timestamp

\* C7: when one of the five artifacts did not load, no request accumulates a
\* forecast entry and every answer is an error without entries.
C7_NoForecastWithoutArtifacts ==
    (\E a \in ArtifactNames : artifacts[a] # "loaded") =>
        \A r \in Requests :
            /\ forecast_results[r] = << >>
            /\ resp[r].forecast = << >>
            /\ Answered(r) => resp[r].status = 500 /\ resp[r].error # ""
C7_Witness ==
    /\ variant = "app"
    /\ artifacts["model_lstm"] = "loaded"
    /\ artifacts["scaler_y"] = "unbound"
    /\ Len(full_data.rows) > TAIL_ROWS
    /\ \E r \in Requests : Answered(r) /\ resp[r].status = 500

\* C8: when the historical table did not load, a request is answered with
\* the guard's error at once: it never enters the loop and no derivation,
\* scaler or regressor call is made; the table stays unloaded.
C8_GuardState ==
    full_data.is_none =>
        \A r \in Requests :
            /\ pc[r] = "idle"
            /\ n_calls[r] = 0 /\ tree_input[r] = << >> /\ window_rows[r] = NotCalled
            /\ resp[r] \in {NoResp, Err(GuardMessage(variant))}
\* C8: without the historical table the guard answers every request, and the
\* table is never loaded later.
C8_FailFastWithoutData ==
    [](C8_GuardState) /\ [][full_data.is_none => full_data'.is_none]_vars
C8_Witness ==
    /\ full_data.is_none
    /\ \A a \in ArtifactNames : artifacts[a] = "loaded"
    /\ \A r \in Requests : resp[r].status = 500

\* C9: the window handed to the scaler and the sequence regressor always has
\* exactly N_LOOKBACK rows; a rolling table with fewer rows makes the request
\* fail before any pass completes.
C9_WindowHasLookbackRows ==
    \A r \in Requests :
        /\ window_rows[r] # NotCalled => window_rows[r] = N_LOOKBACK
        /\ pc[r] = "loop" /\ HistRows(r) < N_LOOKBACK => forecast_results[r] = << >>

\* The six lag and rolling features of create_features_xgb.
LagFeatures ==
    {"Phase3_power_lag_1h", "Phase3_power_lag_3h", "Phase3_power_lag_24h",
     "Phase3_power_roll_avg_3h", "Phase3_power_roll_avg_6h", "Phase3_power_roll_avg_24h"}

\* C10: every row handed to the tree regressor has its six lag and rolling
\* features defined, the rolling table holding at least 96 rows in every pass.
C10_TreeFeaturesDefined ==
    \A r \in Requests :
        /\ \A i \in 1..Len(tree_input[r]) :
              \A f \in LagFeatures : tree_input[r][i][f] # NaN
        /\ pc[r] = "loop" /\ forecast_results[r] # << >> => HistRows(r) >= TAIL_ROWS

\* The target values of the rows lo..hi of a table, added up from the first.
RECURSIVE TargetSum(_, _, _)
TargetSum(table, lo, hi) ==
    IF lo > hi THEN 0 ELSE table[lo].Phase3_power + TargetSum(table, lo + 1, hi)
LagName(k) ==
    CASE k = 1 -> "Phase3_power_lag_1h" [] k = 3 -> "Phase3_power_lag_3h"
      [] k = 24 -> "Phase3_power_lag_24h"
RollName(w) ==
    CASE w = 3 -> "Phase3_power_roll_avg_3h" [] w = 6 -> "Phase3_power_roll_avg_6h"
      [] w = 24 -> "Phase3_power_roll_avg_24h"

\* C11: in the table create_features_xgb returns, lag_kh of row t is the
\* target k rows before t and roll_avg_wh of row t is the mean of the target
\* over the rows t-w..t-1, row t left out; each is undefined when fewer than
\* k (w) rows come before t.
C11_CausalFeatures ==
    ~df_copy.is_none =>
        /\ Len(df_copy.rows) = Len(df)
        /\ \A t \in 1..Len(df) :
              /\ \A k \in {1, 3, 24} :
                    LET lag == df_copy.rows[t][LagName(k)]
                    IN  IF t - 1 < k THEN lag = NaN
                        ELSE lag # NaN /\ lag[1] = df[t - k].Phase3_power * lag[2]
              /\ \A w \in {3, 6, 24} :
                    LET roll == df_copy.rows[t][RollName(w)]
                    IN  IF t - 1 < w THEN roll = NaN
                        ELSE roll # NaN /\ roll[1] * w = TargetSum(df, t - w, t - 1) * roll[2]
C11_Witness ==
    /\ ~df_copy.is_none
    /\ Len(df) = MaxFeatureRows
    /\ df[MAX_LAG + 1].Phase3_power > 1000
    /\ df_copy.rows[MAX_LAG + 1].Phase3_power_roll_avg_24h # NaN
    /\ df_copy.rows[MAX_LAG + 2].Phase3_power_lag_1h = Val(df[MAX_LAG + 1].Phase3_power)

\* The forecast entries request r has produced so far: the answered list, or
\* the list being accumulated.
EntriesOf(r) == IF resp[r].status = 200 THEN resp[r].forecast ELSE forecast_results[r]

\* C12: two requests on the same historical table produce the same forecast
\* sequence, whatever was served in between: any two answered forecasts are
\* equal entry by entry (timestamp and predicted_power), and the entries of
\* a request still running agree with those of every other request.
C12_Deterministic ==
    \A r1 \in Requests : \A r2 \in Requests :
        /\ resp[r1].status = 200 /\ resp[r2].status = 200 =>
              resp[r1].forecast = resp[r2].forecast
        /\ \A i \in 1..Len(EntriesOf(r1)) :
              i <= Len(EntriesOf(r2)) => EntriesOf(r1)[i] = EntriesOf(r2)[i]
C12_Witness ==
    /\ scenario = "mix"
    /\ Len(full_data.rows) > TAIL_ROWS
    /\ alerts_resp.responded
    /\ resp[1].status = 200 /\ resp[2].status = 200
    /\ resp[1].forecast[1].predicted_power # resp[1].forecast[2].predicted_power
    /\ resp[2].forecast[HORIZON].predicted_power # resp[2].forecast[1].predicted_power

\* Request r is about to run iteration i >= 2: the tree regressor's row and
\* the sequence window of that iteration come from base_data[r], whose last
\* row is the one iteration i-1 synthesized.  The fused value of i-1 is the
\* target of that last row and of the window's final row; it is no column of
\* the tree's row, whose calendar fields are those of the last timestamp,
\* whose lag_1h is the target one row earlier (the last historical value at
\* i = 2, the fused value of i-2 from i = 3 on) and whose rolling means are
\* taken over the rows before the last.
FeedbackLag(r) ==
    LET base == base_data[r]
        n == Len(base)
        k == Len(forecast_results[r])
        fused == forecast_results[r][k].predicted_power
        window == current_data_lstm_raw(base)
        X == Select(LastFeatureRows(base), XgbColumns)[1]
    IN  /\ base[n].Phase3_power = fused
        /\ window[Len(window)].Phase3_power = fused
        /\ window[Len(window)].time = FromIso(forecast_results[r][k].timestamp)
        /\ \A j \in 1..Len(window) : window[j] = Select(base, LstmColumns)[n - Len(window) + j]
        /\ "Phase3_power" \notin DOMAIN X
        /\ X.time = base[n].time /\ X.time # next_timestamp_of(base)
        /\ X.hour = hour(base[n].time) /\ X.hour # hour(next_timestamp_of(base))
        /\ X.dayofweek = dayofweek(base[n].time) /\ X.dayofyear = dayofyear(base[n].time)
        /\ X.month = month(base[n].time) /\ X.quarter = quarter(base[n].time)
        /\ X.year = year(base[n].time)
        /\ X.Phase3_power_lag_1h = Val(base[n - 1].Phase3_power)
        /\ X.Phase3_power_lag_1h =
              IF k = 1 THEN Val(full_data.rows[Len(full_data.rows)].Phase3_power)
              ELSE Val(forecast_results[r][k - 1].predicted_power)
        /\ \A w \in {3, 6, 24} :
              IF n - 1 < w THEN X[RollName(w)] = NaN
              ELSE /\ X[RollName(w)] # NaN
                   /\ X[RollName(w)][1] * w = TargetSum(base, n - w, n - 1) * X[RollName(w)][2]
        /\ k >= 2 => tree_input[r] = <<[c \in XgbColumns |->
                          FeatureRow(SubSeq(base, 1, n - 1), TARGET_COLUMN, n - 1)[c]]>>

====
